---- MODULE Spec2Model ----
(***************************************************************************)
(* Model of prepare_public_csv.py (RSN public member directory export).    *)
(*                                                                         *)
(* Strings are TLA+ strings; str.strip, str.lower, str.startswith and the  *)
(* substring test `in` are computed character by character.  A CSV file is *)
(* a header line plus data lines, each a sequence of raw cells.  A row, as *)
(* csv.DictReader yields it, is a function from header name to cell.       *)
(***************************************************************************)
EXTENDS Integers, Sequences, FiniteSets, TLC

VARIABLES
    inFile,          \* the file at input_path: [header, lines], raw cells
    outFile,         \* the file at output_path: [exists, lines]
    pc,              \* "start" | "loop" | "done" | "error"
    headers,         \* local `headers` of prepare_public_csv
    rows,            \* local `rows` of prepare_public_csv
    i,               \* position of `for row in rows` (1-based, next row)
    public_rows,     \* local `public_rows`
    pending_rows,    \* local `pending_rows`
    excluded_stats,  \* local `excluded_stats`
    run,             \* 1 on the first invocation of the script, 2 on the second
    prevOut          \* what the previous invocation left at output_path

vars == <<inFile, outFile, pc, headers, rows, i, public_rows, pending_rows,
          excluded_stats, run, prevOut>>

----------------------------------------------------------------------------
(* Bounds *)

MaxRows == 2

----------------------------------------------------------------------------
(* Configuration constants *)

COL_PRENOM == "Prénom"
COL_NOM == "Nom de la famille"
COL_EMAIL == "E-mail / Courriel"
COL_EMAIL2 == "Autre courriel"
COL_STATUT == "Statut actuel"
COL_INSTITUTION == "Institution / organisation 1"
COL_TYPE == "Type d'adhesion"
COL_CONSENT == "Autorisez-vous le RSN à vous créer un profil de membre public"
COL_AXE == "1e Axe d'intérêt"
COL_ORCID == "ORCID"

COLS_SENSITIVE ==
    << COL_EMAIL, COL_EMAIL2, COL_STATUT, COL_INSTITUTION, "Réseau 1",
       "Expertise", "Thèmes d'intérêt", "Projet de recherche", "Étudiant.e.s",
       "Référée par", "Droit de vote", COL_ORCID, "CV / LinkedIn",
       "Évaluateur du RSN - nouv. formulaire" >>

PLACEHOLDER ==
    (COL_EMAIL :> "membre@rsn-placeholder.ca")
    @@ (COL_INSTITUTION :> "Institution non divulguée")
    @@ (COL_STATUT :> "Non divulgué")

STATS_ROW_MARKER == "__STATS_EXCLUDED__"

REQUIRED_Without_Consent == << COL_PRENOM, COL_NOM >>

REQUIRED == << COL_PRENOM, COL_NOM, COL_CONSENT >>

----------------------------------------------------------------------------
(* Python string operations *)

Range(s) == { s[k] : k \in 1..Len(s) }

Char(s, k) == SubSeq(s, k, k)

IsSpace(c) == c = " " \/ c = "\t"

UpperChars == "ABCDEFGHIJKLMNOPQRSTUVWXYZÉÈÀ"
LowerChars == "abcdefghijklmnopqrstuvwxyzéèà"

\* the characters str.lower changes, each with its lower-case form
LowerMap ==
    [ c \in { Char(UpperChars, k) : k \in 1..Len(UpperChars) } |->
        Char(LowerChars, CHOOSE k \in 1..Len(UpperChars) : Char(UpperChars, k) = c) ]

LowerChar(c) == IF c \in DOMAIN LowerMap THEN LowerMap[c] ELSE c

RECURSIVE lower(_)
lower(s) ==
    IF Len(s) = 0 THEN ""
    ELSE LowerChar(Char(s, 1)) \o lower(SubSeq(s, 2, Len(s)))

RECURSIVE lstrip(_)
lstrip(s) ==
    IF Len(s) > 0 /\ IsSpace(Char(s, 1)) THEN lstrip(SubSeq(s, 2, Len(s))) ELSE s

RECURSIVE rstrip(_)
rstrip(s) ==
    IF Len(s) > 0 /\ IsSpace(Char(s, Len(s)))
    THEN rstrip(SubSeq(s, 1, Len(s) - 1)) ELSE s

strip(s) == rstrip(lstrip(s))

startswith(s, p) == Len(s) >= Len(p) /\ SubSeq(s, 1, Len(p)) = p

\* Python's `p in s` on strings
contains(p, s) ==
    \E k \in 1..(Len(s) - Len(p) + 1) : SubSeq(s, k, k + Len(p) - 1) = p

Digits == "0123456789"

\* str(n) of a non-negative int, as an f-string formats it
RECURSIVE str(_)
str(n) ==
    IF n < 10 THEN Char(Digits, n + 1)
    ELSE str(n \div 10) \o Char(Digits, (n % 10) + 1)

\* dict.get(key, default)
get(d, key, default) == IF key \in DOMAIN d THEN d[key] ELSE default

----------------------------------------------------------------------------
(* read_csv *)

\* headers = [h.strip() for h in reader.fieldnames]
ReadHeaders(f) == [ k \in 1..Len(f.header) |-> strip(f.header[k]) ]

\* One DictReader row, cleaned: cleaned[k.strip()] = (v or '').strip().
\* A line shorter than the header yields None for the missing cells; when two
\* header names are equal after stripping, the later cell wins.
CleanRow(f, line) ==
    [ h \in Range(ReadHeaders(f)) |->
        LET last == CHOOSE k \in 1..Len(f.header) :
                        /\ strip(f.header[k]) = h
                        /\ \A m \in 1..Len(f.header) :
                              strip(f.header[m]) = h => m <= k
        IN  IF last <= Len(line) THEN strip(line[last]) ELSE "" ]

ReadRows(f) == [ r \in 1..Len(f.lines) |-> CleanRow(f, f.lines[r]) ]

----------------------------------------------------------------------------
(* The body of the loop of prepare_public_csv *)

IsBlank_Or(row) ==
    strip(get(row, COL_PRENOM, "")) = "" \/ strip(get(row, COL_NOM, "")) = ""

IsBlank_NeedsEmptyConsent(row) ==
    /\ strip(get(row, COL_PRENOM, "")) = ""
    /\ strip(get(row, COL_NOM, "")) = ""
    /\ strip(get(row, COL_CONSENT, "")) = ""

\* if not row.get(COL_PRENOM, '').strip() and not row.get(COL_NOM, '').strip()
IsBlank(row) ==
    strip(get(row, COL_PRENOM, "")) = "" /\ strip(get(row, COL_NOM, "")) = ""

Disposition_CaseSensitive(row) ==
    LET consent == strip(get(row, COL_CONSENT, ""))
    IN  IF startswith(consent, "oui") THEN "Public"
        ELSE IF startswith(consent, "non") THEN "Excluded"
        ELSE "Pending"

\* consent = row.get(COL_CONSENT, '').strip().lower(); if / elif / else
Disposition(row) ==
    LET consent == lower(strip(get(row, COL_CONSENT, "")))
    IN  IF startswith(consent, "oui") THEN "Public"
        ELSE IF startswith(consent, "non") THEN "Excluded"
        ELSE "Pending"

Category_StudentFirst(row) ==
    LET type_adh == lower(strip(get(row, COL_TYPE, "")))
    IN  IF contains("étudiant", type_adh) \/ contains("etudiant", type_adh)
        THEN "etudiant"
        ELSE IF contains("régulier", type_adh) \/ contains("regulier", type_adh)
        THEN "regulier"
        ELSE IF contains("partenaire", type_adh) THEN "partenaire"
        ELSE "none"

\* type_adh = row.get(COL_TYPE, '').strip().lower(); the counter it selects
Category(row) ==
    LET type_adh == lower(strip(get(row, COL_TYPE, "")))
    IN  IF contains("régulier", type_adh) \/ contains("regulier", type_adh)
        THEN "regulier"
        ELSE IF contains("étudiant", type_adh) \/ contains("etudiant", type_adh)
        THEN "etudiant"
        ELSE IF contains("partenaire", type_adh) THEN "partenaire"
        ELSE "none"

\* excluded_stats['total'] += 1 and at most one of the three other counters
Tally(stats, row) ==
    LET cat == Category(row)
        s1 == [stats EXCEPT !.total = @ + 1]
    IN  IF cat = "none" THEN s1 ELSE [s1 EXCEPT ![cat] = @ + 1]

MaskRow_KeepUnmapped(row) ==
    [ col \in DOMAIN row |->
        IF col \in Range(COLS_SENSITIVE)
        THEN get(PLACEHOLDER, col, row[col])
        ELSE row[col] ]

\* masked = dict(row); for col in COLS_SENSITIVE: if col in masked: ...
MaskRow(row) ==
    [ col \in DOMAIN row |->
        IF col \in Range(COLS_SENSITIVE)
        THEN get(PLACEHOLDER, col, "")
        ELSE row[col] ]

----------------------------------------------------------------------------
(* Statistics row and output *)

Packed(stats) ==
    str(stats.total) \o "," \o str(stats.regulier) \o "," \o
    str(stats.etudiant) \o "," \o str(stats.partenaire)

\* stats_row = {h: '' for h in headers}, then the four assignments in order
StatsRow(hdrs, stats) ==
    (COL_CONSENT :> "stats")
    @@ (COL_EMAIL :> Packed(stats))
    @@ (COL_NOM :> "")
    @@ (COL_PRENOM :> STATS_ROW_MARKER)
    @@ [ h \in Range(hdrs) |-> "" ]

AllPublic_PendingFirst(pub, pend, stats_row) == pend \o pub \o << stats_row >>

\* all_public = public_rows + pending_rows + [stats_row]
AllPublic(pub, pend, stats_row) == pub \o pend \o << stats_row >>

\* csv.DictWriter(fieldnames=headers, extrasaction='ignore').writerow(row)
WriteRow(hdrs, row) == [ k \in 1..Len(hdrs) |-> get(row, hdrs[k], "") ]

WriteFile_Append(old, hdrs, all_public) ==
    [ exists |-> TRUE,
      lines |-> old.lines \o << hdrs >>
                \o [ k \in 1..Len(all_public) |-> WriteRow(hdrs, all_public[k]) ] ]

\* open(output_path, 'w'); writer.writeheader(); writer.writerows(all_public)
WriteFile(old, hdrs, all_public) ==
    [ exists |-> TRUE,
      lines |-> << hdrs >>
                \o [ k \in 1..Len(all_public) |-> WriteRow(hdrs, all_public[k]) ] ]

ZeroStats == [ total |-> 0, regulier |-> 0, etudiant |-> 0, partenaire |-> 0 ]

----------------------------------------------------------------------------
(* Inputs *)

Member(prenom, nom, consent, type) ==
    (COL_PRENOM :> prenom) @@ (COL_NOM :> nom) @@ (COL_CONSENT :> consent)
    @@ (COL_TYPE :> type) @@ (COL_EMAIL :> "al@exemple.ca")
    @@ (COL_STATUT :> "Professeur") @@ (COL_AXE :> "Axe 1")
    @@ (COL_ORCID :> " 0000-0001 ")

ConsentValues == { "Oui", " OUI, merci ", "", "  ", "No", "Non" }

TypeValues ==
    { "Étudiant", "Étudiant régulier", "Partenaire étudiant", "PARTENAIRE",
      "Honoraire" }

MemberPool ==
    { Member("Al", "Roy", c, "Régulier") : c \in ConsentValues }
    \cup { Member("Bea", "Cyr", "NON", t) : t \in TypeValues }
    \cup { Member("", "", c, "Régulier") : c \in { "Oui", "Non", "" } }
    \cup { Member(" ", "", "Non", "Étudiant"),
           Member("", "Roy", "Oui", ""),
           Member("Al", "", "Non", "Partenaire"),
           Member(STATS_ROW_MARKER, "", "stats", "") }

HeaderVariants ==
    { << " Prénom", COL_NOM, COL_EMAIL, COL_STATUT, COL_TYPE, COL_CONSENT,
         COL_AXE, COL_ORCID >>,
      << COL_PRENOM, COL_NOM, COL_TYPE, COL_CONSENT, COL_ORCID >>,
      << COL_NOM, COL_PRENOM, COL_CONSENT >>,
      << COL_PRENOM, COL_NOM, COL_EMAIL, COL_TYPE >>,
      << COL_NOM, COL_EMAIL, COL_CONSENT >>,
      << COL_PRENOM, COL_EMAIL, COL_CONSENT >> }

Line(hdr, member) == [ k \in 1..Len(hdr) |-> member[strip(hdr[k])] ]

NoFile == [ exists |-> FALSE, lines |-> << >> ]

StaleFile == [ exists |-> TRUE, lines |-> << << "stale" >> >> ]

----------------------------------------------------------------------------
(* Behaviour *)

Init ==
    /\ \E hdr \in HeaderVariants :
       \E n \in 0..MaxRows :
       \E members \in [ 1..n -> MemberPool ] :
          inFile = [ header |-> hdr,
                     lines |-> [ r \in 1..n |-> Line(hdr, members[r]) ] ]
    /\ outFile \in { NoFile, StaleFile }
    /\ pc = "start"
    /\ headers = << >>
    /\ rows = << >>
    /\ i = 1
    /\ public_rows = << >>
    /\ pending_rows = << >>
    /\ excluded_stats = ZeroStats
    /\ run = 1
    /\ prevOut = NoFile

\* for col in [COL_PRENOM, COL_NOM, COL_CONSENT]: if col not in headers
MissingColumn(hdrs) ==
    \E k \in 1..Len(REQUIRED) : REQUIRED[k] \notin Range(hdrs)

\* read_csv, the required-column check (sys.exit(1) when it fails), and the
\* creation of the three accumulators
Begin ==
    /\ pc = "start"
    /\ headers' = ReadHeaders(inFile)
    /\ rows' = ReadRows(inFile)
    /\ \/ /\ MissingColumn(ReadHeaders(inFile))
          /\ pc' = "error"
          /\ UNCHANGED << i, public_rows, pending_rows, excluded_stats >>
       \/ /\ ~MissingColumn(ReadHeaders(inFile))
          /\ pc' = "loop"
          /\ i' = 1
          /\ public_rows' = << >>
          /\ pending_rows' = << >>
          /\ excluded_stats' = ZeroStats
    /\ UNCHANGED << inFile, outFile, run, prevOut >>

\* one iteration of `for row in rows`
ProcessRow ==
    /\ pc = "loop"
    /\ i <= Len(rows)
    /\ \/ /\ IsBlank(rows[i])
          /\ UNCHANGED << public_rows, pending_rows, excluded_stats >>
       \/ /\ ~IsBlank(rows[i])
          /\ Disposition(rows[i]) = "Public"
          /\ public_rows' = Append(public_rows, rows[i])
          /\ UNCHANGED << pending_rows, excluded_stats >>
       \/ /\ ~IsBlank(rows[i])
          /\ Disposition(rows[i]) = "Excluded"
          /\ excluded_stats' = Tally(excluded_stats, rows[i])
          /\ UNCHANGED << public_rows, pending_rows >>
       \/ /\ ~IsBlank(rows[i])
          /\ Disposition(rows[i]) = "Pending"
          /\ pending_rows' = Append(pending_rows, MaskRow(rows[i]))
          /\ UNCHANGED << public_rows, excluded_stats >>
    /\ i' = i + 1
    /\ UNCHANGED << inFile, outFile, pc, headers, rows, run, prevOut >>

\* after the loop: the statistics row, the concatenation, the write
Assemble ==
    /\ pc = "loop"
    /\ i > Len(rows)
    /\ outFile' = WriteFile(outFile, headers,
                     AllPublic(public_rows, pending_rows,
                               StatsRow(headers, excluded_stats)))
    /\ pc' = "done"
    /\ UNCHANGED << inFile, headers, rows, i, public_rows, pending_rows,
                    excluded_stats, run, prevOut >>

\* the script is invoked a second time on the same files
Rerun ==
    /\ pc = "done"
    /\ run = 1
    /\ run' = 2
    /\ prevOut' = outFile
    /\ pc' = "start"
    /\ UNCHANGED << inFile, outFile, headers, rows, i, public_rows,
                    pending_rows, excluded_stats >>

Next == Begin \/ ProcessRow \/ Assemble \/ Rerun

Spec == Init /\ [][Next]_vars

----------------------------------------------------------------------------
(* Vocabulary of the properties, computed from the rows the reader returned *)

NormConsent(row) == lower(strip(get(row, COL_CONSENT, "")))

NormType(row) == lower(strip(get(row, COL_TYPE, "")))

BlankName(row) ==
    strip(get(row, COL_PRENOM, "")) = "" /\ strip(get(row, COL_NOM, "")) = ""

ConsentOui(row) == startswith(NormConsent(row), "oui")

ConsentNon(row) == startswith(NormConsent(row), "non")

TypeRegular(row) ==
    contains("régulier", NormType(row)) \/ contains("regulier", NormType(row))

TypeStudent(row) ==
    contains("étudiant", NormType(row)) \/ contains("etudiant", NormType(row))

TypePartner(row) == contains("partenaire", NormType(row))

\* the one counter, besides total, that an Excluded row is to increment:
\* regular before student before partner, "total only" when none matches
CounterOf(row) ==
    LET t == NormType(row)
        regular == contains("régulier", t) \/ contains("regulier", t)
        student == contains("étudiant", t) \/ contains("etudiant", t)
        partner == contains("partenaire", t)
    IN  CASE regular -> "regulier"
          [] ~regular /\ student -> "etudiant"
          [] ~regular /\ ~student /\ partner -> "partenaire"
          [] OTHER -> "total only"

Running == pc \in { "loop", "done" }

\* the rows the loop has already passed
Visited == 1..(i - 1)

PublicSet == { k \in 1..Len(rows) : ~BlankName(rows[k]) /\ ConsentOui(rows[k]) }

OuiSet == { k \in 1..Len(rows) : ConsentOui(rows[k]) }

ExcludedSet == { k \in 1..Len(rows) : ~BlankName(rows[k]) /\ ConsentNon(rows[k]) }

PendingSet ==
    { k \in 1..Len(rows) :
        ~BlankName(rows[k]) /\ ~ConsentOui(rows[k]) /\ ~ConsentNon(rows[k]) }

\* the members of S that are at most n, in increasing order
RECURSIVE Pick(_, _)
Pick(S, n) ==
    IF n = 0 THEN << >>
    ELSE IF n \in S THEN Append(Pick(S, n - 1), n) ELSE Pick(S, n - 1)

\* the data lines of the written file (the header line left out)
DataLines == SubSeq(outFile.lines, 2, Len(outFile.lines))

\* the cell of a written line under header h
Cell(line, h) == line[CHOOSE c \in 1..Len(headers) : headers[c] = h]

IsStatsLine(line) ==
    /\ Cell(line, COL_PRENOM) = STATS_ROW_MARKER
    /\ Cell(line, COL_CONSENT) = "stats"

\* a row as it is written when nothing is changed
PlainLine(row) == [ c \in 1..Len(headers) |-> row[headers[c]] ]

\* a row as it is written when its sensitive fields are masked
MaskedLine(row) ==
    [ c \in 1..Len(headers) |->
        IF headers[c] \in Range(COLS_SENSITIVE)
        THEN IF headers[c] \in DOMAIN PLACEHOLDER
             THEN PLACEHOLDER[headers[c]] ELSE ""
        ELSE row[headers[c]] ]

\* the output the claim of ordering describes, with `pub` the Public indices
Ordered(pub) ==
    LET pend == Pick(PendingSet, Len(rows))
        np == Len(pub)
        nq == Len(pend)
    IN  /\ outFile.exists
        /\ Len(DataLines) = np + nq + 1
        /\ \A k \in 1..np : DataLines[k] = PlainLine(rows[pub[k]])
        /\ \A k \in 1..nq : DataLines[np + k] = MaskedLine(rows[pend[k]])
        /\ IsStatsLine(DataLines[np + nq + 1])

----------------------------------------------------------------------------
(* C1 *)

\* C1: a row whose trimmed, lower-cased consent begins with "non" is appended
\* to neither public_rows nor pending_rows, and no written data line carries
\* such a consent: the two lists hold exactly the visited non-blank rows whose
\* consent does not begin with "non".
C1_ExcludedRowsNeverEmitted ==
    /\ Running =>
         /\ Len(public_rows) + Len(pending_rows)
              = Cardinality({ k \in Visited :
                                ~BlankName(rows[k]) /\ ~ConsentNon(rows[k]) })
         /\ \A k \in 1..Len(public_rows) : ~ConsentNon(public_rows[k])
         /\ \A k \in 1..Len(pending_rows) : ~ConsentNon(pending_rows[k])
    /\ pc = "done" =>
         \A k \in 1..Len(DataLines) :
            ~startswith(lower(strip(Cell(DataLines[k], COL_CONSENT))), "non")

C1_Witness ==
    /\ pc = "done"
    /\ run = 1
    /\ ExcludedSet # {}
    /\ Len(DataLines) = 2

----------------------------------------------------------------------------
(* C2 *)

\* C2: for every non-blank row whose consent begins with neither "oui" nor
\* "non", the masked copy kept in pending_rows, and the line written for it,
\* hold the placeholder (or the empty string) in every sensitive field and the
\* input row's value in every other field.
C2_PendingRowsMasked ==
    LET pend == Pick(PendingSet, i - 1) IN
    /\ Running =>
         /\ Len(pending_rows) = Len(pend)
         /\ \A k \in 1..Len(pend) :
              /\ DOMAIN pending_rows[k] = DOMAIN rows[pend[k]]
              /\ \A h \in DOMAIN rows[pend[k]] :
                   pending_rows[k][h] =
                     IF h \in Range(COLS_SENSITIVE)
                     THEN (IF h \in DOMAIN PLACEHOLDER THEN PLACEHOLDER[h] ELSE "")
                     ELSE rows[pend[k]][h]
    /\ pc = "done" =>
         \A k \in 1..Len(pend) :
            DataLines[Len(public_rows) + k] = MaskedLine(rows[pend[k]])

C2_Witness ==
    /\ pc = "done"
    /\ run = 1
    /\ COL_ORCID \in Range(headers)
    /\ COL_EMAIL \in Range(headers)
    /\ \E k \in PendingSet :
         /\ NormConsent(rows[k]) = ""
         /\ rows[k][COL_ORCID] # ""
    /\ \E k \in PendingSet : NormConsent(rows[k]) = "no"

----------------------------------------------------------------------------
(* C3 *)

\* C3 (as stated): the written rows are all rows whose consent begins with
\* "oui", unmodified and in input order, then the masked Pending rows in input
\* order, then the Statistics Record.
C3_AsStated == pc = "done" => Ordered(Pick(OuiSet, Len(rows)))

\* C3 (amended): the written rows are all NON-BLANK rows whose consent begins
\* with "oui", unmodified and in input order, then the masked Pending rows in
\* input order, then the Statistics Record.
C3_OutputOrder == pc = "done" => Ordered(Pick(PublicSet, Len(rows)))

C3_Witness ==
    /\ pc = "done"
    /\ run = 1
    /\ Len(rows) = 2
    /\ 1 \in PendingSet
    /\ 2 \in PublicSet

----------------------------------------------------------------------------
(* C4 *)

\* C4: whatever strings the member rows hold, exactly one written data line
\* has the sentinel marker as first name and "stats" as consent, and it is the
\* last line.
C4_ExactlyOneStatsRecord ==
    pc = "done" =>
       /\ Cardinality({ k \in 1..Len(DataLines) : IsStatsLine(DataLines[k]) }) = 1
       /\ IsStatsLine(DataLines[Len(DataLines)])

----------------------------------------------------------------------------
(* C5 *)

\* C5: in every run that passes the required-column check, whatever other
\* headers are present, the written Statistics Record holds in its email
\* field the packed list total,regular,student,partner of the final counters,
\* which are the tallies over all input rows.
C5_StatsRecordCarriesCounters ==
    pc = "done" =>
       /\ excluded_stats.total = Cardinality(ExcludedSet)
       /\ COL_EMAIL \in Range(headers)
       /\ Cell(DataLines[Len(DataLines)], COL_EMAIL) = Packed(excluded_stats)

----------------------------------------------------------------------------
(* C6 *)

\* C6: the iteration over a row whose first and last name are both empty
\* after trimming, whatever its consent and membership type, appends to
\* neither list and changes none of the four counters.
C6_BlankRowsDiscarded ==
    [][ (pc = "loop" /\ i <= Len(rows) /\ BlankName(rows[i]))
          => /\ public_rows' = public_rows
             /\ pending_rows' = pending_rows
             /\ excluded_stats' = excluded_stats
             /\ outFile' = outFile ]_vars

C6_Witness ==
    /\ pc = "done"
    /\ run = 1
    /\ \E k \in 1..Len(rows) : BlankName(rows[k]) /\ ConsentNon(rows[k])
    /\ \E k \in 1..Len(rows) : BlankName(rows[k]) /\ ConsentOui(rows[k])
    /\ excluded_stats = ZeroStats
    /\ Len(DataLines) = 1

----------------------------------------------------------------------------
(* C7 *)

RequiredPresent ==
    { COL_PRENOM, COL_NOM, COL_CONSENT }
       \subseteq { strip(inFile.header[k]) : k \in 1..Len(inFile.header) }

\* C7: when a required column is absent from the header list, the run never
\* gets past the column check: no row is appended to a list, no counter is
\* incremented, the only step taken ends in the error state and the file at
\* the output path is left as it was.
C7_MissingColumnAborts ==
    /\ [](~RequiredPresent =>
            /\ pc \in { "start", "error" }
            /\ public_rows = << >>
            /\ pending_rows = << >>
            /\ excluded_stats = ZeroStats)
    /\ [][ ~RequiredPresent => (pc' = "error" /\ outFile' = outFile) ]_vars

C7_Witness ==
    /\ pc = "error"
    /\ COL_CONSENT \notin Range(headers)
    /\ Len(rows) = 2
    /\ outFile = StaleFile

----------------------------------------------------------------------------
(* C8 *)

\* C8: the second run on the same input leaves at the output path exactly
\* what the first run left there: same header line, same data lines, same
\* Statistics Record.
C8_SecondRunSameOutput == (run = 2 /\ pc = "done") => outFile = prevOut

C8_Witness ==
    /\ run = 2
    /\ pc = "done"
    /\ excluded_stats.total > 0
    /\ Len(public_rows) > 0
    /\ prevOut.exists

----------------------------------------------------------------------------
(* C9 *)

\* C9: at every point of the pass, total is the number of Excluded rows
\* visited so far, regulier counts those whose type matches regular, etudiant
\* those matching student but not regular, partenaire those matching partner
\* but neither of the others; so total >= regulier + etudiant + partenaire,
\* and rows of the other dispositions change no counter.
C9_CountersFollowExcludedRows ==
    Running =>
       LET seen == ExcludedSet \cap Visited IN
       /\ excluded_stats.total = Cardinality(seen)
       /\ excluded_stats.regulier
            = Cardinality({ k \in seen : CounterOf(rows[k]) = "regulier" })
       /\ excluded_stats.etudiant
            = Cardinality({ k \in seen : CounterOf(rows[k]) = "etudiant" })
       /\ excluded_stats.partenaire
            = Cardinality({ k \in seen : CounterOf(rows[k]) = "partenaire" })
       /\ excluded_stats.total >= excluded_stats.regulier
            + excluded_stats.etudiant + excluded_stats.partenaire

C9_Witness ==
    /\ pc = "done"
    /\ run = 1
    /\ \E k \in ExcludedSet : TypeRegular(rows[k]) /\ TypeStudent(rows[k])
    /\ \E k \in ExcludedSet :
         ~TypeRegular(rows[k]) /\ ~TypeStudent(rows[k]) /\ ~TypePartner(rows[k])
    /\ excluded_stats = [ total |-> 2, regulier |-> 1, etudiant |-> 0,
                          partenaire |-> 0 ]

----------------------------------------------------------------------------
(* C10 *)

\* the steps the two invocations still have to take
StepsLeft ==
    (IF run = 1 /\ pc # "error" THEN Len(inFile.lines) + 3 ELSE 0)
    + (CASE pc = "start" -> Len(inFile.lines) + 2
         [] pc = "loop" -> Len(rows) - i + 2
         [] OTHER -> 0)

\* C10: the pass visits the rows one by one in input order and ends (every
\* step lowers a non-negative count of steps left, which is zero exactly
\* when the run has ended); every visited non-blank row is in exactly one of
\* Public, Pending, Excluded, by the ordered rule, so that Public + Pending +
\* total is the number of non-blank rows visited, and the written file holds
\* Public + Pending + 1 data lines.
C10_OnePassOneDisposition ==
    /\ [](Running =>
            /\ i \in 1..(Len(rows) + 1)
            /\ (pc = "done" => i = Len(rows) + 1)
            /\ Len(public_rows) = Cardinality(PublicSet \cap Visited)
            /\ Len(pending_rows) = Cardinality(PendingSet \cap Visited)
            /\ excluded_stats.total = Cardinality(ExcludedSet \cap Visited)
            /\ Len(public_rows) + Len(pending_rows) + excluded_stats.total
                 = Cardinality({ k \in Visited : ~BlankName(rows[k]) }))
    /\ [](pc = "done" =>
            Len(DataLines) = Len(public_rows) + Len(pending_rows) + 1)
    /\ [](StepsLeft = 0 <=> (pc = "error" \/ (pc = "done" /\ run = 2)))
    /\ [][ pc = "loop" => (i' = i + 1 \/ (i = Len(rows) + 1 /\ pc' = "done")) ]_vars
    /\ [][ StepsLeft' < StepsLeft /\ StepsLeft' >= 0 ]_vars

C10_Witness ==
    /\ pc = "done"
    /\ run = 2
    /\ Len(rows) = 2
    /\ \E k \in 1..Len(rows) : BlankName(rows[k])
    /\ \E k \in 1..Len(rows) :
         ~BlankName(rows[k]) /\ strip(get(rows[k], COL_NOM, "")) = ""
    /\ excluded_stats.total = 1

====
